---- MODULE Spec2Model ----
(***************************************************************************)
(* Frame tree resolver of the ANISE toolkit: the walk from a frame to the  *)
(* solar system barycenter (AniseContext::try_ephemeris_path), the         *)
(* translation query built on it (AniseContext::translate_from_to) and the *)
(* common ephemeris node of two frames (find_common_ephemeris_node).       *)
(***************************************************************************)
EXTENDS Integers, Sequences, FiniteSets, TLC

(***************************************************************************)
(* Bounds of the model.                                                    *)
(***************************************************************************)
\* generic catalogs use the ephemeris hashes 1..MaxHash; MaxHash+1 is a hash
\* that no catalog knows. The hashes 1..MaxHash-1 form a chain, each the child
\* of the one below and 1 the child of the root; MaxHash is a branch
MaxHash == 10
\* one hash of 1..MaxDefect departs from the chain: it has no record, or its
\* parent is any of 0..MaxDefect
MaxDefect == 2
\* the parent of the branch is one of 0..MaxBranch
MaxBranch == 1
\* epochs are 0..MaxEpoch
MaxEpoch == 1

(***************************************************************************)
(* Hashes. A hash is a u32; TLC's integers are 32-bit signed, so a hash is *)
(* kept as its two 16-bit halves: U32(hi, lo) stands for hi * 65536 + lo.  *)
(***************************************************************************)
U32(hi, lo) == <<hi, lo>>

LessU32(a, b) == a[1] < b[1] \/ (a[1] = b[1] /\ a[2] < b[2])

MERCURY == U32(11490, 50747)
VENUS == U32(42116, 33112)
EARTH_MOON_BARYCENTER == U32(703, 2005)
MARS_BARYCENTER == U32(18676, 31293)
JUPITER_BARYCENTER == U32(44337, 30607)
SATURN_BARYCENTER == U32(36624, 55975)
URANUS_BARYCENTER == U32(22112, 11212)
NEPTUNE_BARYCENTER == U32(3042, 36369)
PLUTO_BARYCENTER == U32(23570, 54090)
SUN == U32(27129, 34839)
LUNA == U32(25463, 34245)
EARTH == U32(35556, 23012)
J2000 == U32(21431, 25616)
\* an orientation other than J2000
OTHER_ORIENTATION == U32(0, 1)

\* "The solar system barycenter has a hash of 0."
SOLAR_SYSTEM_BARYCENTER == U32(0, 0)

MAX_TREE_DEPTH == 8

(***************************************************************************)
(* Frames: a pair of an ephemeris hash and an orientation hash.            *)
(***************************************************************************)
from_ephem_orient(ephemeris_hash, orientation_hash) ==
    [ephemeris_hash |-> ephemeris_hash, orientation_hash |-> orientation_hash]

EARTH_J2000 == from_ephem_orient(EARTH, J2000)
LUNA_J2000 == from_ephem_orient(LUNA, J2000)

(***************************************************************************)
(* Contexts. ephemeris_data is the catalog (a sequence of records, indexed *)
(* from 0 by the LUT); the LUT is the sequence of hashes, ascending, and   *)
(* the parallel sequence of catalog indexes.                               *)
(***************************************************************************)
Ephemeris(hash, parent) == [hash |-> hash, parent_ephemeris_hash |-> parent]

RECURSIVE SortU32(_)
SortU32(S) ==
    IF S = {} THEN <<>>
    ELSE LET m == CHOOSE x \in S : \A y \in S : x = y \/ LessU32(x, y)
         IN  <<m>> \o SortU32(S \ {m})

\* the index (from 0) of the first record of data whose hash is h
IndexOfRecord(data, h) ==
    (CHOOSE i \in 1..Len(data) :
        /\ data[i].hash = h
        /\ \A j \in 1..(i - 1) : data[j].hash # h) - 1

\* a record of the orientation catalog
Orientation(hash) == [hash |-> hash]

\* the context a well-formed file with the records data opens to
ContextOf(data) ==
    LET hs == SortU32({data[i].hash : i \in 1..Len(data)})
    IN  [ephemeris_data |-> data,
         orientation_data |-> <<Orientation(J2000)>>,
         ephemeris_lut |-> [hashes |-> hs,
                            indexes |-> [i \in 1..Len(hs) |-> IndexOfRecord(data, hs[i])]]]

\* the catalog of the DE files: EMB, the Sun and the planets (or their
\* barycenters) hang from the solar system barycenter, the Earth and the
\* Moon from EMB
DERecords ==
    << Ephemeris(MERCURY, SOLAR_SYSTEM_BARYCENTER),
       Ephemeris(VENUS, SOLAR_SYSTEM_BARYCENTER),
       Ephemeris(EARTH_MOON_BARYCENTER, SOLAR_SYSTEM_BARYCENTER),
       Ephemeris(MARS_BARYCENTER, SOLAR_SYSTEM_BARYCENTER),
       Ephemeris(JUPITER_BARYCENTER, SOLAR_SYSTEM_BARYCENTER),
       Ephemeris(SATURN_BARYCENTER, SOLAR_SYSTEM_BARYCENTER),
       Ephemeris(URANUS_BARYCENTER, SOLAR_SYSTEM_BARYCENTER),
       Ephemeris(NEPTUNE_BARYCENTER, SOLAR_SYSTEM_BARYCENTER),
       Ephemeris(PLUTO_BARYCENTER, SOLAR_SYSTEM_BARYCENTER),
       Ephemeris(SUN, SOLAR_SYSTEM_BARYCENTER),
       Ephemeris(LUNA, EARTH_MOON_BARYCENTER),
       Ephemeris(EARTH, EARTH_MOON_BARYCENTER) >>

DEContext == ContextOf(DERecords)

\* generic catalogs: par gives each of the hashes 1..MaxHash its parent, or
\* Absent when the hash has no record (and no LUT entry)
Absent == 0 - 1

ParentMaps ==
    { [k \in 1..MaxHash |->
          IF k = defect THEN parent
          ELSE IF k = MaxHash THEN branch
          ELSE k - 1] :
      defect \in 1..MaxDefect, parent \in (0..MaxDefect) \cup {Absent},
      branch \in 0..MaxBranch }

RECURSIVE RecordsOf(_, _)
\* the records of par for the hashes k, k-1, ..., 1 (descending, so that a
\* record's catalog index differs from its position in the LUT)
RecordsOf(par, k) ==
    IF k = 0 THEN <<>>
    ELSE (IF par[k] = Absent THEN <<>>
          ELSE <<Ephemeris(U32(0, k), U32(0, par[k]))>>) \o RecordsOf(par, k - 1)

GenericContexts == { ContextOf(RecordsOf(par, MaxHash)) : par \in ParentMaps }

\* contexts of files whose LUT is damaged: the entry i of the LUT of the
\* chain MaxHash -> ... -> 1 -> root holds an index one past the catalog
ChainContext ==
    ContextOf(RecordsOf([k \in 1..MaxHash |-> k - 1], MaxHash))

DamagedContexts ==
    { [ChainContext EXCEPT
          !.ephemeris_lut.indexes[i] = Len(ChainContext.ephemeris_data)] :
      i \in 1..MaxDefect }

Contexts == {DEContext} \cup GenericContexts \cup DamagedContexts

\* the indexes the accessors of the context c are called with
Indexes(c) == 0..(Len(c.ephemeris_data) + 1)

\* the ephemeris hashes a query on the context c is made with: those of its
\* LUT, the parents its records name, and one hash that it does not know
UnknownHash == U32(0, MaxHash + 1)

QueryHashes(c) ==
    {c.ephemeris_lut.hashes[i] : i \in 1..Len(c.ephemeris_lut.hashes)}
    \cup {c.ephemeris_data[i].parent_ephemeris_hash : i \in 1..Len(c.ephemeris_data)}
    \cup {UnknownHash}

Orientations == {J2000, OTHER_ORIENTATION}

Frames(c) == { from_ephem_orient(h, o) : h \in QueryHashes(c), o \in Orientations }

Epochs == 0..MaxEpoch

(***************************************************************************)
(* Results.                                                                *)
(***************************************************************************)
Ok(v) == [kind |-> "Ok", value |-> v]
Err(e) == [kind |-> "Err", error |-> e]
\* a panic of the program (todo!(), an index out of bounds)
Panic(why) == [kind |-> "Panic", why |-> why]
NoResult == [kind |-> "None"]

\* Option<u32>
None == <<>>
Some(h) == <<h>>

(***************************************************************************)
(* Accessors of the context.                                               *)
(***************************************************************************)
\* ephemeris_lut.index_for_hash: the catalog index of the LUT entry with
\* this hash, or the lookup error when there is none
index_for_hash(c, hash) ==
    LET lut == c.ephemeris_lut
        at == { i \in 1..Len(lut.hashes) : lut.hashes[i] = hash }
    IN  IF at = {} THEN Err("NotFound")
        ELSE Ok(lut.indexes[CHOOSE i \in at : \A j \in at : i <= j])

\* the catalog is indexed without a bounds check
try_ephemeris_data_Unchecked(c, idx) ==
    IF idx + 1 \in 1..Len(c.ephemeris_data)
    THEN Ok(c.ephemeris_data[idx + 1])
    ELSE Panic("index out of bounds")

\* ephemeris_data.get(idx).ok_or(IntegrityError(LookupTable))
try_ephemeris_data(c, idx) ==
    IF idx + 1 \in 1..Len(c.ephemeris_data)
    THEN Ok(c.ephemeris_data[idx + 1])
    ELSE Err("IntegrityError(LookupTable)")

\* orientation_data.get(idx).ok_or(IntegrityError(LookupTable))
try_orientation_data(c, idx) ==
    IF idx + 1 \in 1..Len(c.orientation_data)
    THEN Ok(c.orientation_data[idx + 1])
    ELSE Err("IntegrityError(LookupTable)")

(***************************************************************************)
(* State.                                                                  *)
(***************************************************************************)
VARIABLES
    ctx,              \* the opened context
    pc,               \* "idle", "walk", "returned" (try_ephemeris_path has
                      \* returned to its caller), "done"
    op,               \* the query being run
    phase,            \* which call of try_ephemeris_path the query is in
    of_path,          \* try_ephemeris_path: [Option<u32>; MAX_TREE_DEPTH]
    of_path_len,      \* try_ephemeris_path: the number of slots written
    prev_ephem_hash,  \* try_ephemeris_path: the hash looked up next
    iter,             \* try_ephemeris_path: iterations of the for loop done
    ret,              \* what try_ephemeris_path returned
    from_path,        \* the caller's (of_path_len, of_path) of from_frame
    lookups,          \* LUT lookups made by the query so far
    result            \* what the query returned

\* concurrent callers of one context
VARIABLES
    threads,          \* per thread: the query it runs and where it is in it
    stacks            \* per stack frame: the locals of try_ephemeris_path

\* opening a buffer
VARIABLES
    buffer,           \* the buffer given to open
    opened            \* what open returned

\* ingestion of a text kernel into a TPCItem
VARIABLES
    item,             \* the TPCItem: body_id and data
    prior,            \* the item before the last call of parse
    history,          \* the assignments parsed so far, with what each was
                      \* written from
    origin,           \* per entry of item.data, the body id of the
                      \* assignment it was inserted from
    outcome           \* how the last call of parse ended

kernelVars == <<item, prior, history, origin, outcome>>

\* merge of the items of two kernels
VARIABLES
    planetary_data,   \* the items of the first kernel, by body id; the merge
                      \* is made into it
    gravity_data,     \* the items of the second kernel, by body id
    planetary_file,   \* planetary_data as it was ingested
    pending           \* the keys of gravity_data the for loop has not visited

mergeVars == <<planetary_data, gravity_data, planetary_file, pending>>

otherVars == <<threads, stacks, buffer, opened, kernelVars, mergeVars>>

vars == <<ctx, otherVars, pc, op, phase, of_path, of_path_len, prev_ephem_hash, iter,
          ret, from_path, lookups, result>>

NoOp == [name |-> "none"]

\* let mut of_path = [None; MAX_TREE_DEPTH];
EmptyPath == [i \in 0..(MAX_TREE_DEPTH - 1) |-> None]

\* let mut of_path_len = 0;
EmptyPathLen == 0

\* no concurrent caller is modelled
NoThreads == threads = <<>> /\ stacks = <<>>

\* the opening of the context is not modelled
NoBuffer == buffer = <<>> /\ opened = NoResult

\* impl Default for TPCItem; data is a function from the parameters it holds
DefaultItem == [body_id |-> None, data |-> <<>>]

\* no kernel is ingested
NoKernel ==
    /\ item = DefaultItem
    /\ prior = DefaultItem
    /\ history = <<>>
    /\ origin = <<>>
    /\ outcome = NoResult

\* no kernels are merged
NoMerge ==
    /\ planetary_data = <<>>
    /\ gravity_data = <<>>
    /\ planetary_file = <<>>
    /\ pending = {}

Init ==
    /\ ctx \in Contexts
    /\ NoThreads
    /\ NoBuffer
    /\ NoKernel
    /\ NoMerge
    /\ pc = "idle"
    /\ op = NoOp
    /\ phase = 0
    /\ of_path = EmptyPath
    /\ of_path_len = EmptyPathLen
    /\ prev_ephem_hash = SOLAR_SYSTEM_BARYCENTER
    /\ iter = 0
    /\ ret = NoResult
    /\ from_path = NoResult
    /\ lookups = 0
    /\ result = NoResult

(***************************************************************************)
(* try_ephemeris_path.                                                     *)
(***************************************************************************)
\* the loop runs once more than the path has slots
LoopContinues_Inclusive(i) == i <= MAX_TREE_DEPTH

\* the loop is not bounded at all
LoopContinues_Forever(i) == TRUE

\* for _ in 0..MAX_TREE_DEPTH
LoopContinues(i) == i < MAX_TREE_DEPTH

\* the walk does not move on to the parent
NextHash_Stuck(prev, parent_hash) == prev

\* prev_ephem_hash = parent_hash;
NextHash(prev, parent_hash) == parent_hash

\* if parent_hash == SOLAR_SYSTEM_BARYCENTER
IsRoot(parent_hash) == parent_hash = SOLAR_SYSTEM_BARYCENTER

\* the locals of a call of try_ephemeris_path on source
Locals(path, len, prev, i) ==
    [of_path |-> path, of_path_len |-> len, prev_ephem_hash |-> prev, iter |-> i]

\* the source's own hash is written to the path as its first element
EnterPath_WithSource(source) ==
    Locals([EmptyPath EXCEPT ![0] = Some(source.ephemeris_hash)], 1,
           source.ephemeris_hash, 0)

EnterPath(source) ==
    Locals(EmptyPath, EmptyPathLen, source.ephemeris_hash, 0)

\* a failed lookup ends the walk with the chain written so far
LoopBody_PartialChain(c, st) ==
    LET idx == index_for_hash(c, st.prev_ephem_hash)
        rec == try_ephemeris_data(c, idx.value)
        parent_hash == rec.value.parent_ephemeris_hash
        path == [st.of_path EXCEPT ![st.of_path_len] = Some(parent_hash)]
        len == st.of_path_len + 1
    IN  IF idx.kind = "Err" \/ rec.kind = "Err"
        THEN [st |-> st, ret |-> Ok(<<st.of_path_len, st.of_path>>)]
        ELSE IF st.of_path_len \notin DOMAIN st.of_path
             THEN [st |-> st, ret |-> Panic("index out of bounds")]
        ELSE IF IsRoot(parent_hash)
             THEN [st |-> Locals(path, len, st.prev_ephem_hash, st.iter),
                   ret |-> Ok(<<len, path>>)]
        ELSE [st |-> Locals(path, len, NextHash(st.prev_ephem_hash, parent_hash), st.iter + 1),
              ret |-> NoResult]

\* one iteration of the loop on the locals st: the locals after it, the value
\* returned if it returns, and the LUT lookups it makes
LoopBody(c, st) ==
    LET idx == index_for_hash(c, st.prev_ephem_hash)
        rec == try_ephemeris_data(c, idx.value)
        parent_hash == rec.value.parent_ephemeris_hash
        path == [st.of_path EXCEPT ![st.of_path_len] = Some(parent_hash)]
        len == st.of_path_len + 1
    IN  IF idx.kind = "Err" THEN [st |-> st, ret |-> idx]
        ELSE IF rec.kind = "Err" THEN [st |-> st, ret |-> rec]
        ELSE IF st.of_path_len \notin DOMAIN st.of_path
             THEN [st |-> st, ret |-> Panic("index out of bounds")]
        ELSE IF IsRoot(parent_hash)
             THEN [st |-> Locals(path, len, st.prev_ephem_hash, st.iter),
                   ret |-> Ok(<<len, path>>)]
        ELSE [st |-> Locals(path, len, NextHash(st.prev_ephem_hash, parent_hash), st.iter + 1),
              ret |-> NoResult]

\* the call of try_ephemeris_path(source) starts
StartWalk(source) ==
    LET st == EnterPath(source)
    IN  /\ of_path' = st.of_path
        /\ of_path_len' = st.of_path_len
        /\ prev_ephem_hash' = st.prev_ephem_hash
        /\ iter' = st.iter
        /\ ret' = NoResult
        /\ pc' = "walk"

\* one iteration of the for loop
LoopStep ==
    /\ pc = "walk"
    /\ LoopContinues(iter)
    /\ LET r == LoopBody(ctx, Locals(of_path, of_path_len, prev_ephem_hash, iter))
       IN  /\ of_path' = r.st.of_path
           /\ of_path_len' = r.st.of_path_len
           /\ prev_ephem_hash' = r.st.prev_ephem_hash
           /\ iter' = r.st.iter
           /\ ret' = r.ret
           /\ pc' = IF r.ret = NoResult THEN "walk" ELSE "returned"
    /\ lookups' = lookups + 1
    /\ UNCHANGED <<ctx, otherVars, op, phase, from_path, result>>

\* the loop ends without having met the root and the path written so far is
\* returned
LoopExit_Truncates ==
    /\ pc = "walk"
    /\ ~LoopContinues(iter)
    /\ ret' = Ok(<<of_path_len, of_path>>)
    /\ pc' = "returned"
    /\ UNCHANGED <<ctx, otherVars, op, phase, of_path, of_path_len, prev_ephem_hash, iter,
                   from_path, lookups, result>>

\* the loop ends without having met the root: Err(AniseError::MaxTreeDepth)
LoopExit ==
    /\ pc = "walk"
    /\ ~LoopContinues(iter)
    /\ ret' = Err("MaxTreeDepth")
    /\ pc' = "returned"
    /\ UNCHANGED <<ctx, otherVars, op, phase, of_path, of_path_len, prev_ephem_hash, iter,
                   from_path, lookups, result>>

\* a caller calls try_ephemeris_path(source) on the context
CallTryEphemerisPath ==
    /\ pc = "idle"
    /\ \E source \in Frames(ctx) :
         /\ op' = [name |-> "try_ephemeris_path", source |-> source]
         /\ StartWalk(source)
    /\ phase' = 1
    /\ lookups' = 0
    /\ UNCHANGED <<ctx, otherVars, from_path, result>>

\* try_ephemeris_path returns to that caller
ReturnTryEphemerisPath ==
    /\ pc = "returned"
    /\ op.name = "try_ephemeris_path"
    /\ result' = ret
    /\ pc' = "done"
    /\ UNCHANGED <<ctx, otherVars, op, phase, of_path, of_path_len, prev_ephem_hash, iter,
                   ret, from_path, lookups>>

\* the caller drops the result; the context is ready for the next query
Finish ==
    /\ pc = "done"
    /\ pc' = "idle"
    /\ op' = NoOp
    /\ phase' = 0
    /\ of_path' = EmptyPath
    /\ of_path_len' = EmptyPathLen
    /\ prev_ephem_hash' = SOLAR_SYSTEM_BARYCENTER
    /\ iter' = 0
    /\ ret' = NoResult
    /\ from_path' = NoResult
    /\ lookups' = 0
    /\ result' = NoResult
    /\ UNCHANGED <<ctx, otherVars>>

(***************************************************************************)
(* translate_from_to.                                                      *)
(***************************************************************************)
\* the comparison is inverted
SameFrame_Negated(from_frame, to_frame) == from_frame # to_frame

\* equal frames are not recognised
SameFrame_Never(from_frame, to_frame) == FALSE

\* if from_frame == to_frame
SameFrame(from_frame, to_frame) == from_frame = to_frame

\* Ok(([0.0; 3], [0.0; 3]))
ZeroState == Ok(<< <<0, 0, 0>>, <<0, 0, 0>> >>)

\* a caller calls translate_from_to(from_frame, to_frame, epoch); equal frames
\* return at once, otherwise the path of from_frame is asked for
CallTranslateFromTo ==
    /\ pc = "idle"
    /\ \E from_frame \in Frames(ctx), to_frame \in Frames(ctx), epoch \in Epochs :
         /\ op' = [name |-> "translate_from_to", from_frame |-> from_frame,
                   to_frame |-> to_frame, epoch |-> epoch]
         /\ IF SameFrame(from_frame, to_frame)
            THEN /\ result' = ZeroState
                 /\ pc' = "done"
                 /\ phase' = 0
                 /\ UNCHANGED <<of_path, of_path_len, prev_ephem_hash, iter, ret>>
            ELSE /\ StartWalk(from_frame)
                 /\ phase' = 1
                 /\ UNCHANGED result
    /\ lookups' = 0
    /\ UNCHANGED <<ctx, otherVars, from_path>>

\* let (of_path_len, of_path) = self.try_ephemeris_path(&from_frame)?;
TranslateFromPathReturns ==
    /\ pc = "returned"
    /\ op.name = "translate_from_to"
    /\ phase = 1
    /\ IF ret.kind = "Ok"
       THEN /\ from_path' = ret
            /\ StartWalk(op.to_frame)
            /\ phase' = 2
            /\ UNCHANGED result
       ELSE /\ result' = ret
            /\ pc' = "done"
            /\ UNCHANGED <<of_path, of_path_len, prev_ephem_hash, iter, ret,
                           from_path, phase>>
    /\ UNCHANGED <<ctx, otherVars, op, lookups>>

\* let (wrt_path_len, wrt_path) = self.try_ephemeris_path(&to_frame)?;
\* todo!()
TranslateToPathReturns ==
    /\ pc = "returned"
    /\ op.name = "translate_from_to"
    /\ phase = 2
    /\ result' = IF ret.kind = "Ok" THEN Panic("not yet implemented") ELSE ret
    /\ pc' = "done"
    /\ UNCHANGED <<ctx, otherVars, op, phase, of_path, of_path_len, prev_ephem_hash, iter,
                   ret, from_path, lookups>>

(***************************************************************************)
(* find_common_ephemeris_node.                                             *)
(***************************************************************************)
\* the hashes of a returned (of_path_len, of_path), in the order written
Chain(path) == [i \in 1..path[1] |-> path[2][i - 1][1]]

RECURSIVE AgreeFromRoot_StopsEarly(_, _, _)
\* the scan stops one position before the end of the shorter chain
AgreeFromRoot_StopsEarly(a, b, k) ==
    IF k + 1 < Len(a) /\ k + 1 < Len(b) /\ a[Len(a) - k] = b[Len(b) - k]
    THEN AgreeFromRoot_StopsEarly(a, b, k + 1)
    ELSE k

RECURSIVE AgreeFromRoot(_, _, _)
\* the scan from the root end of both chains inward: the number of positions,
\* counted from the root end, at which a and b agree before they first differ
\* or one of them ends; k positions are known to agree
AgreeFromRoot(a, b, k) ==
    IF k < Len(a) /\ k < Len(b) /\ a[Len(a) - k] = b[Len(b) - k]
    THEN AgreeFromRoot(a, b, k + 1)
    ELSE k

\* the (child, parent) hops from the node h along its chain to chain[m]
Edges(h, chain, m) ==
    [i \in 1..m |-> <<IF i = 1 THEN h ELSE chain[i - 1], chain[i]>>]

CommonNode(node, from_edges, to_edges) ==
    [node |-> node, from_edges |-> from_edges, to_edges |-> to_edges]

\* the scan reports the node of the first chain one position past the last
\* agreement
CommonOfChains_OnePast(from_frame, to_frame, a, b) ==
    LET k == AgreeFromRoot(a, b, 0)
        m == IF k < Len(a) THEN Len(a) - k ELSE Len(a) - k + 1
    IN  IF k = 0 THEN Err("NoCommonNode")
        ELSE Ok(CommonNode(a[m],
                           Edges(from_frame.ephemeris_hash, a, m),
                           Edges(to_frame.ephemeris_hash, b, Len(b) - k + 1)))

\* the common node of two frames whose chains are a and b: the last position
\* of the scan at which the chains agree
CommonOfChains(from_frame, to_frame, a, b) ==
    LET k == AgreeFromRoot(a, b, 0)
    IN  IF k = 0 THEN Err("NoCommonNode")
        ELSE Ok(CommonNode(a[Len(a) - k + 1],
                           Edges(from_frame.ephemeris_hash, a, Len(a) - k + 1),
                           Edges(to_frame.ephemeris_hash, b, Len(b) - k + 1)))

\* the common node of a frame and itself is taken to be the root
CommonOfSelf_Root(frame) == Ok(CommonNode(SOLAR_SYSTEM_BARYCENTER, <<>>, <<>>))

\* the common node of a frame and itself: the frame's own node, no edges
CommonOfSelf(frame) == Ok(CommonNode(frame.ephemeris_hash, <<>>, <<>>))

CallFindCommonEphemerisNode ==
    /\ pc = "idle"
    /\ \E from_frame \in Frames(ctx), to_frame \in Frames(ctx) :
         /\ op' = [name |-> "find_common_ephemeris_node", from_frame |-> from_frame,
                   to_frame |-> to_frame]
         /\ IF SameFrame(from_frame, to_frame)
            THEN /\ result' = CommonOfSelf(from_frame)
                 /\ pc' = "done"
                 /\ phase' = 0
                 /\ UNCHANGED <<of_path, of_path_len, prev_ephem_hash, iter, ret>>
            ELSE /\ StartWalk(from_frame)
                 /\ phase' = 1
                 /\ UNCHANGED result
    /\ lookups' = 0
    /\ UNCHANGED <<ctx, otherVars, from_path>>

FindCommonFromPathReturns ==
    /\ pc = "returned"
    /\ op.name = "find_common_ephemeris_node"
    /\ phase = 1
    /\ IF ret.kind = "Ok"
       THEN /\ from_path' = ret
            /\ StartWalk(op.to_frame)
            /\ phase' = 2
            /\ UNCHANGED result
       ELSE /\ result' = ret
            /\ pc' = "done"
            /\ UNCHANGED <<of_path, of_path_len, prev_ephem_hash, iter, ret,
                           from_path, phase>>
    /\ UNCHANGED <<ctx, otherVars, op, lookups>>

FindCommonToPathReturns ==
    /\ pc = "returned"
    /\ op.name = "find_common_ephemeris_node"
    /\ phase = 2
    /\ result' = IF ret.kind = "Ok"
                 THEN CommonOfChains(op.from_frame, op.to_frame,
                                     Chain(from_path.value), Chain(ret.value))
                 ELSE ret
    /\ pc' = "done"
    /\ UNCHANGED <<ctx, otherVars, op, phase, of_path, of_path_len, prev_ephem_hash, iter,
                   ret, from_path, lookups>>

(***************************************************************************)
(* The queries as functions of the context and their arguments.            *)
(***************************************************************************)
RECURSIVE RunLoop(_, _)
\* the loop of try_ephemeris_path run from the locals st to its return
RunLoop(c, st) ==
    IF ~LoopContinues(st.iter) THEN Err("MaxTreeDepth")
    ELSE LET r == LoopBody(c, st)
         IN  IF r.ret # NoResult THEN r.ret ELSE RunLoop(c, r.st)

\* try_ephemeris_path(source)
PathOf(c, source) == RunLoop(c, EnterPath(source))

\* translate_from_to(from_frame, to_frame, epoch)
TranslateOf(c, from_frame, to_frame, epoch) ==
    IF SameFrame(from_frame, to_frame) THEN ZeroState
    ELSE LET a == PathOf(c, from_frame)
             b == PathOf(c, to_frame)
         IN  IF a.kind # "Ok" THEN a
             ELSE IF b.kind # "Ok" THEN b
             ELSE Panic("not yet implemented")

\* find_common_ephemeris_node(from_frame, to_frame)
FindCommonOf(c, from_frame, to_frame) ==
    IF SameFrame(from_frame, to_frame) THEN CommonOfSelf(from_frame)
    ELSE LET a == PathOf(c, from_frame)
             b == PathOf(c, to_frame)
         IN  IF a.kind # "Ok" THEN a
             ELSE IF b.kind # "Ok" THEN b
             ELSE CommonOfChains(from_frame, to_frame, Chain(a.value), Chain(b.value))

(***************************************************************************)
(* Specifications.                                                         *)
\* a caller reads a record of the ephemeris catalog by its index
CallTryEphemerisData ==
    /\ pc = "idle"
    /\ \E idx \in Indexes(ctx) :
         /\ op' = [name |-> "try_ephemeris_data", idx |-> idx]
         /\ result' = try_ephemeris_data(ctx, idx)
    /\ pc' = "done"
    /\ UNCHANGED <<ctx, otherVars, phase, of_path, of_path_len, prev_ephem_hash, iter,
                   ret, from_path, lookups>>

\* a caller reads a record of the orientation catalog by its index
CallTryOrientationData ==
    /\ pc = "idle"
    /\ \E idx \in Indexes(ctx) :
         /\ op' = [name |-> "try_orientation_data", idx |-> idx]
         /\ result' = try_orientation_data(ctx, idx)
    /\ pc' = "done"
    /\ UNCHANGED <<ctx, otherVars, phase, of_path, of_path_len, prev_ephem_hash, iter,
                   ret, from_path, lookups>>

(***************************************************************************)
(* Concurrent callers. Every thread calls the queries on the one context   *)
(* (&self); the locals of try_ephemeris_path live in the stack frame of    *)
(* the call. A step of a thread is one loop iteration or one return.       *)
(***************************************************************************)
NThreads == 2

Threads == 1..NThreads

\* a catalog with a cycle (the Moon and the Earth name each other as parent)
\* beside a body that hangs from the root
CyclicContext ==
    ContextOf(<< Ephemeris(LUNA, EARTH), Ephemeris(EARTH, LUNA),
                 Ephemeris(SUN, SOLAR_SYSTEM_BARYCENTER) >>)

ConcurrentContexts == {DEContext, CyclicContext}

SUN_J2000 == from_ephem_orient(SUN, J2000)
UNKNOWN_J2000 == from_ephem_orient(UnknownHash, J2000)

\* the queries the threads make
ThreadQueries ==
    { [name |-> "try_ephemeris_path", source |-> f] :
        f \in {LUNA_J2000, SUN_J2000, UNKNOWN_J2000} }
    \cup
    { [name |-> "translate_from_to", from_frame |-> q[1], to_frame |-> q[2],
       epoch |-> 0] :
        q \in { <<SUN_J2000, LUNA_J2000>>, <<LUNA_J2000, LUNA_J2000>> } }

\* the locals of a frame in which no call runs
IdleLocals == Locals(EmptyPath, EmptyPathLen, SOLAR_SYSTEM_BARYCENTER, 0)

IdleThread ==
    [pc |-> "idle", op |-> NoOp, phase |-> 0, ret |-> NoResult,
     from_path |-> NoResult, result |-> NoResult, first |-> NoResult]

\* one scratch buffer serves the calls of every thread
StackOf_Shared(t) == 1

\* the stack frame of a call made by the thread t: its own
StackOf(t) == t

\* the thread record th when its query has returned r
Returned(th, r) ==
    [th EXCEPT !.pc = "done", !.result = r, !.phase = 0, !.ret = NoResult,
               !.from_path = NoResult]

\* the thread t enters the query q
Enter(t, q, first) ==
    IF q.name = "translate_from_to" /\ SameFrame(q.from_frame, q.to_frame)
    THEN /\ threads' = [threads EXCEPT
                           ![t] = Returned([IdleThread EXCEPT !.op = q, !.first = first],
                                           ZeroState)]
         /\ UNCHANGED stacks
    ELSE /\ threads' = [threads EXCEPT
                           ![t] = [IdleThread EXCEPT !.pc = "walk", !.op = q,
                                                     !.phase = 1, !.first = first]]
         /\ stacks' = [stacks EXCEPT
                          ![StackOf(t)] = EnterPath(IF q.name = "try_ephemeris_path"
                                                    THEN q.source ELSE q.from_frame)]

\* the thread t calls a query
ThreadCall(t) ==
    /\ threads[t].pc = "idle"
    /\ \E q \in ThreadQueries : Enter(t, q, NoResult)
    /\ UNCHANGED <<ctx, buffer, opened, kernelVars, mergeVars,
                   pc, op, phase, of_path, of_path_len, prev_ephem_hash,
                   iter, ret, from_path, lookups, result>>

\* one iteration of the for loop in the thread t
ThreadLoopStep(t) ==
    /\ threads[t].pc = "walk"
    /\ LoopContinues(stacks[StackOf(t)].iter)
    /\ LET r == LoopBody(ctx, stacks[StackOf(t)])
       IN  /\ stacks' = [stacks EXCEPT ![StackOf(t)] = r.st]
           /\ threads' = [threads EXCEPT
                             ![t].ret = r.ret,
                             ![t].pc = IF r.ret = NoResult THEN "walk" ELSE "returned"]
    /\ UNCHANGED <<ctx, buffer, opened, kernelVars, mergeVars,
                   pc, op, phase, of_path, of_path_len, prev_ephem_hash,
                   iter, ret, from_path, lookups, result>>

\* the loop of the thread t ends without having met the root
ThreadLoopExit(t) ==
    /\ threads[t].pc = "walk"
    /\ ~LoopContinues(stacks[StackOf(t)].iter)
    /\ threads' = [threads EXCEPT ![t].ret = Err("MaxTreeDepth"),
                                  ![t].pc = "returned"]
    /\ UNCHANGED <<ctx, stacks, buffer, opened, kernelVars, mergeVars,
                   pc, op, phase, of_path, of_path_len,
                   prev_ephem_hash, iter, ret, from_path, lookups, result>>

\* try_ephemeris_path returns in the thread t: to the caller of the query, or
\* to translate_from_to, which asks for the second path, fails with the
\* error of the path, or reaches todo!()
ThreadReturn(t) ==
    LET th == threads[t]
    IN  /\ th.pc = "returned"
        /\ IF th.op.name = "translate_from_to" /\ th.phase = 1 /\ th.ret.kind = "Ok"
           THEN /\ threads' = [threads EXCEPT
                                  ![t] = [th EXCEPT !.pc = "walk", !.phase = 2,
                                                    !.from_path = th.ret,
                                                    !.ret = NoResult]]
                /\ stacks' = [stacks EXCEPT ![StackOf(t)] = EnterPath(th.op.to_frame)]
           ELSE /\ threads' = [threads EXCEPT
                                  ![t] = Returned(th,
                                            IF th.op.name = "translate_from_to"
                                               /\ th.phase = 2 /\ th.ret.kind = "Ok"
                                            THEN Panic("not yet implemented")
                                            ELSE th.ret)]
                /\ stacks' = [stacks EXCEPT ![StackOf(t)] = IdleLocals]
        /\ UNCHANGED <<ctx, buffer, opened, kernelVars, mergeVars,
                   pc, op, phase, of_path, of_path_len, prev_ephem_hash,
                       iter, ret, from_path, lookups, result>>

\* the caller in the thread t makes the query it has the result of again,
\* keeping the first result
ThreadRetry(t) ==
    /\ threads[t].pc = "done"
    /\ Enter(t, threads[t].op,
             IF threads[t].first = NoResult THEN threads[t].result
             ELSE threads[t].first)
    /\ UNCHANGED <<ctx, buffer, opened, kernelVars, mergeVars,
                   pc, op, phase, of_path, of_path_len, prev_ephem_hash,
                   iter, ret, from_path, lookups, result>>

\* the caller in the thread t drops the result
ThreadFinish(t) ==
    /\ threads[t].pc = "done"
    /\ threads' = [threads EXCEPT ![t] = IdleThread]
    /\ UNCHANGED <<ctx, stacks, buffer, opened, kernelVars, mergeVars,
                   pc, op, phase, of_path, of_path_len,
                   prev_ephem_hash, iter, ret, from_path, lookups, result>>

\* no query is made on the context outside the threads
NoCaller ==
    /\ pc = "idle"
    /\ op = NoOp
    /\ phase = 0
    /\ of_path = EmptyPath
    /\ of_path_len = EmptyPathLen
    /\ prev_ephem_hash = SOLAR_SYSTEM_BARYCENTER
    /\ iter = 0
    /\ ret = NoResult
    /\ from_path = NoResult
    /\ lookups = 0
    /\ result = NoResult

InitConcurrent ==
    /\ ctx \in ConcurrentContexts
    /\ NoBuffer
    /\ NoKernel
    /\ NoMerge
    /\ threads = [t \in Threads |-> IdleThread]
    /\ stacks = [t \in Threads |-> IdleLocals]
    /\ NoCaller

Call == \E t \in Threads : ThreadCall(t)
Step == \E t \in Threads : ThreadLoopStep(t)
Exit == \E t \in Threads : ThreadLoopExit(t)
Return == \E t \in Threads : ThreadReturn(t)
Retry == \E t \in Threads : ThreadRetry(t)
Drop == \E t \in Threads : ThreadFinish(t)

NextConcurrent ==
    \/ Call
    \/ Step
    \/ Exit
    \/ Return
    \/ Retry
    \/ Drop

SpecConcurrent == InitConcurrent /\ [][NextConcurrent]_vars

(***************************************************************************)
(* Opening a buffer. A buffer holds a version tag, the ephemeris catalog   *)
(* and its LUT (hashes ascending, with the parallel catalog indexes) and   *)
(* the orientation catalog.                                                *)
(***************************************************************************)
MaxLut == 3

\* the buffer a context is read from
BufferOf(version, c) ==
    [version |-> version, ephemeris_data |-> c.ephemeris_data,
     orientation_data |-> c.orientation_data, ephemeris_lut |-> c.ephemeris_lut]

\* the sequences of at most MaxLut LUT keys in ascending order, equal keys
\* allowed
AscendingKeys ==
    UNION { { s \in [1..n -> 1..MaxLut] : \A i \in 1..(n - 1) : s[i] <= s[i + 1] } :
            n \in 0..MaxLut }

\* the buffer whose LUT has the keys ks, entry i for the record i of the
\* catalog; the record of key k names k - 1 as its parent, and that of key 1
\* the root, or itself when loop holds
KeyedBuffer(version, ks, loop) ==
    [version |-> version,
     ephemeris_data |->
        [i \in 1..Len(ks) |->
            Ephemeris(U32(0, ks[i]),
                      IF ks[i] = 1 /\ loop THEN U32(0, 1) ELSE U32(0, ks[i] - 1))],
     orientation_data |-> <<Orientation(J2000)>>,
     ephemeris_lut |-> [hashes |-> [i \in 1..Len(ks) |-> U32(0, ks[i])],
                        indexes |-> [i \in 1..Len(ks) |-> i - 1]]]

Versions == {"supported", "unsupported"}

Buffers ==
    { KeyedBuffer(v, ks, loop) : v \in Versions, ks \in AscendingKeys, loop \in BOOLEAN }
    \cup { BufferOf(v, DEContext) : v \in Versions }

\* only neighbouring entries after the first pair are compared
HasDuplicate_SkipsFirst(hashes) ==
    \E i \in 2..(Len(hashes) - 1) : hashes[i] = hashes[i + 1]

\* two entries of the LUT have the same hash
HasDuplicate(hashes) ==
    \E i \in 1..Len(hashes), j \in 1..Len(hashes) : i # j /\ hashes[i] = hashes[j]

\* the context before a buffer is opened
Unopened ==
    [ephemeris_data |-> <<>>, orientation_data |-> <<>>,
     ephemeris_lut |-> [hashes |-> <<>>, indexes |-> <<>>]]

\* open(buffer) -> Context | IntegrityError
open(b) ==
    IF b.version # "supported" THEN Err("IntegrityError(Version)")
    ELSE IF HasDuplicate(b.ephemeris_lut.hashes)
         THEN Err("IntegrityError(LookupTable)")
    ELSE Ok([ephemeris_data |-> b.ephemeris_data,
             orientation_data |-> b.orientation_data,
             ephemeris_lut |-> b.ephemeris_lut])

\* the buffer is opened, once, before any query
Open ==
    /\ pc = "closed"
    /\ opened' = open(buffer)
    /\ IF opened'.kind = "Ok"
       THEN ctx' = opened'.value /\ pc' = "idle"
       ELSE ctx' = ctx /\ pc' = "failed"
    /\ UNCHANGED <<threads, stacks, buffer, kernelVars, mergeVars,
                   op, phase, of_path, of_path_len, prev_ephem_hash, iter, ret,
                   from_path, lookups, result>>

InitOpen ==
    /\ buffer \in Buffers
    /\ opened = NoResult
    /\ ctx = Unopened
    /\ NoThreads
    /\ NoKernel
    /\ NoMerge
    /\ pc = "closed"
    /\ op = NoOp
    /\ phase = 0
    /\ of_path = EmptyPath
    /\ of_path_len = EmptyPathLen
    /\ prev_ephem_hash = SOLAR_SYSTEM_BARYCENTER
    /\ iter = 0
    /\ ret = NoResult
    /\ from_path = NoResult
    /\ lookups = 0
    /\ result = NoResult

\* a buffer is opened and the walk is asked for on the context it gives
NextOpen ==
    \/ Open
    \/ CallTryEphemerisPath
    \/ LoopStep
    \/ LoopExit
    \/ ReturnTryEphemerisPath
    \/ Finish

SpecOpen == InitOpen /\ [][NextOpen]_vars

(***************************************************************************)
(* Text kernels (naif/kpl/tpc.rs). A keyword is the sequence of its        *)
(* characters; the value of an assignment is the sequence of the tokens    *)
(* its text splits into at white space.                                    *)
(***************************************************************************)
\* the largest i32
MaxI32 == 2147483647
MinI32 == (0 - MaxI32) - 1

BODY == <<"B", "O", "D", "Y">>

\* the keywords of Parameter::from_str
K_NUT_PREC_RA == <<"N", "U", "T", "_", "P", "R", "E", "C", "_", "R", "A">>
K_NUT_PREC_DEC == <<"N", "U", "T", "_", "P", "R", "E", "C", "_", "D", "E", "C">>
K_NUT_PREC_PM == <<"N", "U", "T", "_", "P", "R", "E", "C", "_", "P", "M">>
K_LONG_AXIS == <<"L", "O", "N", "G", "_", "A", "X", "I", "S">>
K_POLE_DEC == <<"P", "O", "L", "E", "_", "D", "E", "C">>
K_POLE_RA == <<"P", "O", "L", "E", "_", "R", "A">>
K_RADII == <<"R", "A", "D", "I", "I">>
K_PM == <<"P", "M">>
K_NUT_PREC_ANGLES == <<"N", "U", "T", "_", "P", "R", "E", "C", "_", "A", "N", "G", "L", "E", "S">>
K_N_GEOMAG_CTR_DIPOLE_LAT == <<"N", "_", "G", "E", "O", "M", "A", "G", "_", "C", "T", "R", "_", "D", "I", "P", "O", "L", "E", "_", "L", "A", "T">>
K_N_GEOMAG_CTR_DIPOLE_LON == <<"N", "_", "G", "E", "O", "M", "A", "G", "_", "C", "T", "R", "_", "D", "I", "P", "O", "L", "E", "_", "L", "O", "N">>
K_GM == <<"G", "M">>

\* enum Parameter
Parameters ==
    {"NutPrecRa", "NutPrecDec", "NutPrecPm", "NutPrecAngles", "LongAxis",
     "PoleRa", "PoleDec", "Radii", "PrimeMeridian",
     "GeoMagNorthPoleCenterDipoleLatitude",
     "GeoMagNorthPoleCenterDipoleLongitude", "GravitationalParameter"}

\* a string that is no keyword is taken for the gravitational parameter
Parameter_from_str_Lenient(s) ==
    CASE
            s = K_NUT_PREC_RA -> Ok("NutPrecRa")
         [] s = K_NUT_PREC_DEC -> Ok("NutPrecDec")
         [] s = K_NUT_PREC_PM -> Ok("NutPrecPm")
         [] s = K_LONG_AXIS -> Ok("LongAxis")
         [] s = K_POLE_DEC -> Ok("PoleDec")
         [] s = K_POLE_RA -> Ok("PoleRa")
         [] s = K_RADII -> Ok("Radii")
         [] s = K_PM -> Ok("PrimeMeridian")
         [] s = K_NUT_PREC_ANGLES -> Ok("NutPrecAngles")
         [] s = K_N_GEOMAG_CTR_DIPOLE_LAT -> Ok("GeoMagNorthPoleCenterDipoleLatitude")
         [] s = K_N_GEOMAG_CTR_DIPOLE_LON -> Ok("GeoMagNorthPoleCenterDipoleLongitude")
         [] s = K_GM -> Ok("GravitationalParameter")
         [] OTHER -> Ok("GravitationalParameter")

\* impl FromStr for Parameter
Parameter_from_str(s) ==
    CASE
            s = K_NUT_PREC_RA -> Ok("NutPrecRa")
         [] s = K_NUT_PREC_DEC -> Ok("NutPrecDec")
         [] s = K_NUT_PREC_PM -> Ok("NutPrecPm")
         [] s = K_LONG_AXIS -> Ok("LongAxis")
         [] s = K_POLE_DEC -> Ok("PoleDec")
         [] s = K_POLE_RA -> Ok("PoleRa")
         [] s = K_RADII -> Ok("Radii")
         [] s = K_PM -> Ok("PrimeMeridian")
         [] s = K_NUT_PREC_ANGLES -> Ok("NutPrecAngles")
         [] s = K_N_GEOMAG_CTR_DIPOLE_LAT -> Ok("GeoMagNorthPoleCenterDipoleLatitude")
         [] s = K_N_GEOMAG_CTR_DIPOLE_LON -> Ok("GeoMagNorthPoleCenterDipoleLongitude")
         [] s = K_GM -> Ok("GravitationalParameter")
         [] OTHER -> Err("ParameterNotSpecified")

\* str::starts_with
starts_with(s, prefix) ==
    Len(s) >= Len(prefix) /\ SubSeq(s, 1, Len(prefix)) = prefix

\* str::split_once: the text before and the text after the first delimiter
split_once(s, delimiter) ==
    LET at == { i \in 1..Len(s) : s[i] = delimiter }
    IN  IF at = {} THEN None
        ELSE LET i == CHOOSE k \in at : \A j \in at : k <= j
             IN  Some(<<SubSeq(s, 1, i - 1), SubSeq(s, i + 1, Len(s))>>)

\* s[n..]
SliceFrom(s, n) == SubSeq(s, n + 1, Len(s))

Digits == <<"0", "1", "2", "3", "4", "5", "6", "7", "8", "9">>

IsDigit(c) == \E d \in 1..Len(Digits) : Digits[d] = c

DigitValue(c) == (CHOOSE d \in 1..Len(Digits) : Digits[d] = c) - 1

RECURSIVE ParseDigits(_, _, _, _)
\* the digits of s from position i on, added to acc (towards sign) with the
\* checked arithmetic of i32: None at a character that is no digit and at an
\* overflow
ParseDigits(s, i, acc, sign) ==
    IF i > Len(s) THEN Some(acc)
    ELSE IF ~IsDigit(s[i]) THEN None
    ELSE LET d == DigitValue(s[i])
         IN  IF sign > 0
             THEN IF acc > (MaxI32 - d) \div 10 THEN None
                  ELSE ParseDigits(s, i + 1, acc * 10 + d, sign)
             ELSE IF acc < 0 - (MaxI32 \div 10) \/ acc * 10 < MinI32 + d THEN None
                  ELSE ParseDigits(s, i + 1, acc * 10 - d, sign)

\* str::parse::<i32>().ok(): an optional sign and at least one digit
parse_i32(s) ==
    IF s = <<>> THEN None
    ELSE IF s[1] \in {"+", "-"}
         THEN IF Len(s) = 1 THEN None
              ELSE ParseDigits(s, 2, 0, IF s[1] = "-" THEN 0 - 1 ELSE 1)
    ELSE ParseDigits(s, 1, 0, 1)

\* the tokens of a value: a number as it is written in a kernel (its sign
\* character and its magnitude, in thousandths), a parenthesis, a line break
Literal(sign, magnitude) == [kind |-> "number", sign |-> sign, magnitude |-> magnitude]
Mark(kind) == [kind |-> kind, sign |-> "", magnitude |-> 0]

\* the sign of the number is dropped
parse_f64_Unsigned(token) == token.magnitude

\* str::parse::<f64> of a token that is a number
parse_f64(token) ==
    IF token.sign = "-" THEN 0 - token.magnitude ELSE token.magnitude

IsNumber(token) == token.kind = "number"

RECURSIVE value_to_vec_f64(_)
\* Assignment::value_to_vec_f64: the numbers of the value, in the order
\* written; parentheses and line breaks are not part of the list
value_to_vec_f64(value) ==
    IF value = <<>> THEN <<>>
    ELSE (IF IsNumber(Head(value)) THEN <<parse_f64(Head(value))>> ELSE <<>>)
         \o value_to_vec_f64(Tail(value))

\* struct Assignment
Assignment(keyword, value) == [keyword |-> keyword, value |-> value]

\* the vector is appended to the one the parameter already has
Insert_Extends(data, param, vec) ==
    [q \in DOMAIN data \cup {param} |->
        IF q = param THEN (IF param \in DOMAIN data THEN data[param] ELSE <<>>) \o vec
        ELSE data[q]]

\* HashMap::insert
Insert(data, param, vec) ==
    [q \in DOMAIN data \cup {param} |-> IF q = param THEN vec ELSE data[q]]

\* TPCItem::extract_key: the body id of a BODY keyword (a panic when it is
\* no i32), -1 for any other keyword
extract_key(keyword) ==
    IF starts_with(keyword, BODY)
    THEN LET parts0 == IF split_once(keyword, "_") = None THEN keyword
                       ELSE split_once(keyword, "_")[1][1]
             id == parse_i32(SliceFrom(parts0, 4))
         IN  IF id = None THEN Panic("unwrap on an Err value")
             ELSE Ok(id[1])
    ELSE Ok(0 - 1)

\* TPCItem::parse: the item after the call, the body id read from the
\* keyword, whether an entry of data was written, and the warnings logged
parse(self, data) ==
    LET same == [item |-> self, body_id |-> None, inserted |-> None, warned |-> {},
                 panicked |-> FALSE]
        split == split_once(data.keyword, "_")
        body_info == split[1][1]
        param == split[1][2]
        body_id == parse_i32(SliceFrom(body_info, 4))
        mismatch == self.body_id # None /\ self.body_id # body_id
        p == Parameter_from_str(param)
    IN  IF ~starts_with(data.keyword, BODY) THEN same
        ELSE IF split = None THEN same
        ELSE IF Len(body_info) < Len(BODY) THEN [same EXCEPT !.panicked = TRUE]
        ELSE [item |-> [body_id |-> IF mismatch THEN self.body_id ELSE body_id,
                        data |-> IF p.kind = "Ok"
                                 THEN Insert(self.data, p.value, value_to_vec_f64(data.value))
                                 ELSE self.data],
              body_id |-> body_id,
              inserted |-> IF p.kind = "Ok" THEN Some(p.value) ELSE None,
              warned |-> (IF mismatch THEN {"Got body but expected"} ELSE {})
                         \cup (IF p.kind = "Ok" THEN {} ELSE {"Unknown parameter"}),
              panicked |-> FALSE]

\* what the assignments are written from: number lists, on one line or on
\* one line per number, positive numbers with or without a plus sign
MaxParse == 2

PoleRaOfEarth == <<0, 0 - 641, 0>>

ValueForms ==
    { [nums |-> PoleRaOfEarth, multiline |-> FALSE, plus |-> FALSE],
      [nums |-> <<284950, 870536, 0>>, multiline |-> TRUE, plus |-> TRUE],
      [nums |-> <<398600>>, multiline |-> FALSE, plus |-> FALSE] }

ShortForm == [nums |-> <<22031>>, multiline |-> FALSE, plus |-> TRUE]

RECURSIVE FormatFrom(_, _)
FormatFrom(form, i) ==
    IF i > Len(form.nums) THEN <<>>
    ELSE <<IF form.nums[i] < 0 THEN Literal("-", 0 - form.nums[i])
           ELSE Literal(IF form.plus THEN "+" ELSE "", form.nums[i])>>
         \o (IF form.multiline /\ i < Len(form.nums) THEN <<Mark("newline")>> ELSE <<>>)
         \o FormatFrom(form, i + 1)

\* the text of a value: ( n1 n2 ... )
Format(form) == <<Mark("open")>> \o FormatFrom(form, 1) \o <<Mark("close")>>

ID_399 == <<"3", "9", "9">>
ID_599 == <<"5", "9", "9">>

\* strings that are no keyword of Parameter::from_str
K_POLE == <<"P", "O", "L", "E">>
K_gm == <<"g", "m">>

Vocabulary ==
    {K_NUT_PREC_RA, K_NUT_PREC_DEC, K_NUT_PREC_PM, K_LONG_AXIS, K_POLE_DEC,
     K_POLE_RA, K_RADII, K_PM, K_NUT_PREC_ANGLES, K_N_GEOMAG_CTR_DIPOLE_LAT,
     K_N_GEOMAG_CTR_DIPOLE_LON, K_GM}

ParameterTexts == Vocabulary \cup {K_POLE, K_gm}

\* BODY<id>_<param>
BodyKeyword(id, param) == BODY \o id \o <<"_">> \o param

\* keywords of other shapes: no underscore, no BODY, no id, an id that is
\* no number, an id too large for an i32, an id with a sign
OddKeywords ==
    { BODY \o ID_399,
      <<"F", "R", "A", "M", "E", "_">> \o K_RADII,
      BodyKeyword(<<>>, K_RADII),
      BodyKeyword(<<"X">>, K_GM),
      BodyKeyword(<<"9", "9", "9", "9", "9", "9", "9", "9", "9", "9">>, K_GM),
      BodyKeyword(<<"+">> \o ID_399, K_PM),
      BodyKeyword(<<"-", "2", "1", "4", "7", "4", "8", "3", "6", "4", "8">>, K_GM) }

\* the assignments given to parse, each with the numbers it was written from
Writes ==
    { [keyword |-> BodyKeyword(ID_399, w), form |-> f] :
        w \in ParameterTexts, f \in ValueForms }
    \cup { [keyword |-> BodyKeyword(ID_599, w), form |-> ShortForm] :
             w \in {K_POLE_RA, K_GM, K_POLE} }
    \cup { [keyword |-> k, form |-> ShortForm] : k \in OddKeywords }

AssignmentOf(w) == Assignment(w.keyword, Format(w.form))

\* item.parse(assignment), for the next assignment of a kernel
Parse ==
    /\ Len(history) < MaxParse
    /\ \E w \in Writes :
         LET r == parse(item, AssignmentOf(w))
         IN  /\ item' = r.item
             /\ prior' = item
             /\ history' = Append(history, w)
             /\ origin' = IF r.inserted = None THEN origin
                          ELSE Insert(origin, r.inserted[1], r.body_id)
             /\ outcome' = IF r.panicked THEN Panic("byte index out of bounds")
                           ELSE [kind |-> "Returned", warned |-> r.warned]
    /\ UNCHANGED <<ctx, threads, stacks, buffer, opened, mergeVars, pc, op, phase, of_path,
                   of_path_len, prev_ephem_hash, iter, ret, from_path, lookups,
                   result>>

InitTPC ==
    /\ ctx = Unopened
    /\ NoThreads
    /\ NoBuffer
    /\ NoKernel
    /\ NoMerge
    /\ NoCaller

NextTPC == Parse

SpecTPC == InitTPC /\ [][NextTPC]_vars

(***************************************************************************)
(* Merge of the items ingested from two kernels (test_anise_conversion):   *)
(* the items of the gravity kernel are merged into those of the planetary  *)
(* kernel, body by body.                                                   *)
(***************************************************************************)
MergeBodies == {1, 399}

MergeParameters == {"GravitationalParameter", "Radii"}

\* the items a kernel is ingested to when each of its values is vec: some
\* of the bodies, each with some of the parameters
ItemsOf(vec) ==
    UNION { { [b \in bodies |-> [body_id |-> Some(b), data |-> [q \in ps[b] |-> vec]]] :
              ps \in [bodies -> SUBSET MergeParameters] } :
            bodies \in SUBSET MergeBodies }

PlanetaryVector == <<6378, 6378, 6356>>
GravityVector == <<398600>>

\* for (gk, gv) in value.data { planet_data.data.insert(gk, gv); }
InsertAll(data, from) ==
    [q \in DOMAIN data \cup DOMAIN from |-> IF q \in DOMAIN from THEN from[q] ELSE data[q]]

\* one iteration of for (key, value) in gravity_data: the entries of value
\* are inserted in the item planetary_data has for key, if it has one
MergeStep ==
    /\ pending # {}
    /\ \E key \in pending :
         /\ planetary_data' =
              IF key \in DOMAIN planetary_data
              THEN [planetary_data EXCEPT
                       ![key].data = InsertAll(@, gravity_data[key].data)]
              ELSE planetary_data
         /\ pending' = pending \ {key}
    /\ UNCHANGED <<ctx, threads, stacks, buffer, opened, kernelVars, gravity_data,
                   planetary_file, pc, op, phase, of_path, of_path_len,
                   prev_ephem_hash, iter, ret, from_path, lookups, result>>

InitMerge ==
    /\ planetary_data \in ItemsOf(PlanetaryVector)
    /\ gravity_data \in ItemsOf(GravityVector)
    /\ planetary_file = planetary_data
    /\ pending = DOMAIN gravity_data
    /\ ctx = Unopened
    /\ NoThreads
    /\ NoBuffer
    /\ NoKernel
    /\ NoCaller

NextMerge == MergeStep

SpecMerge == InitMerge /\ [][NextMerge]_vars

(***************************************************************************)
\* the walk alone
NextPath ==
    \/ CallTryEphemerisPath
    \/ LoopStep
    \/ LoopExit
    \/ ReturnTryEphemerisPath
    \/ Finish

SpecPath == Init /\ [][NextPath]_vars

\* every query of the context
Next ==
    \/ CallTryEphemerisPath
    \/ CallTranslateFromTo
    \/ CallFindCommonEphemerisNode
    \/ CallTryEphemerisData
    \/ CallTryOrientationData
    \/ LoopStep
    \/ LoopExit
    \/ ReturnTryEphemerisPath
    \/ TranslateFromPathReturns
    \/ TranslateToPathReturns
    \/ FindCommonFromPathReturns
    \/ FindCommonToPathReturns
    \/ Finish

Spec == Init /\ [][Next]_vars

\* the walk alone, run to its end: try_ephemeris_path is straight-line code
\* that nothing suspends, so a loop iteration that can run does run
SpecPathFair ==
    SpecPath /\ WF_vars(LoopStep) /\ WF_vars(LoopExit) /\ WF_vars(ReturnTryEphemerisPath)

(***************************************************************************)
(* Properties.                                                             *)
(***************************************************************************)
Done(name) == pc = "done" /\ op.name = name

LutHashes(c) == {c.ephemeris_lut.hashes[i] : i \in 1..Len(c.ephemeris_lut.hashes)}

\* the queries, run step by step, return what the functions above give
StepsAgreeWithFunctions ==
    /\ Done("try_ephemeris_path") => result = PathOf(ctx, op.source)
    /\ Done("translate_from_to") =>
           result = TranslateOf(ctx, op.from_frame, op.to_frame, op.epoch)
    /\ Done("find_common_ephemeris_node") =>
           result = FindCommonOf(ctx, op.from_frame, op.to_frame)

\* C1: translate_from_to of a frame to itself returns Ok with the position
\* [0, 0, 0] and the velocity [0, 0, 0], whatever the frame's two hashes and
\* whatever the epoch.
C1_IdentityIsZero ==
    (Done("translate_from_to") /\ op.from_frame = op.to_frame)
        => /\ result.kind = "Ok"
           /\ result.value[1] = <<0, 0, 0>>
           /\ result.value[2] = <<0, 0, 0>>

\* a frame of the other orientation, at the last epoch, was translated to itself
C1_Witness ==
    /\ Done("translate_from_to")
    /\ op.from_frame = op.to_frame
    /\ op.from_frame.orientation_hash = OTHER_ORIENTATION
    /\ op.from_frame.ephemeris_hash \in LutHashes(ctx)
    /\ op.epoch = MaxEpoch
    /\ result.kind = "Ok"

\* C2: translate_from_to of a frame to itself returns its zero result without
\* any LUT lookup or record access and without computing an ancestor chain:
\* the query is never inside try_ephemeris_path, whether or not the frame's
\* hash has a LUT entry and whether or not its walk would end.
C2_IdentityShortCircuit ==
    (op.name = "translate_from_to" /\ op.from_frame = op.to_frame)
        => /\ pc = "done"
           /\ result.kind = "Ok"
           /\ lookups = 0
           /\ phase = 0
           /\ ret = NoResult
           /\ of_path_len = 0
           /\ \A i \in DOMAIN of_path : of_path[i] = None

\* a frame whose hash has no LUT entry was translated to itself
C2_Witness ==
    /\ Done("translate_from_to")
    /\ op.from_frame = op.to_frame
    /\ index_for_hash(ctx, op.from_frame.ephemeris_hash).kind = "Err"
    /\ result.kind = "Ok"

\* a frame whose walk never meets the root was translated to itself
C2_WitnessCyclic ==
    /\ Done("translate_from_to")
    /\ op.from_frame = op.to_frame
    /\ PathOf(ctx, op.from_frame) = Err("MaxTreeDepth")
    /\ result.kind = "Ok"

Negated(v) == [i \in 1..3 |-> 0 - v[i]]

\* C3: for two frames whose ancestor chains resolve, translate_from_to(F1, F2, t)
\* returns a (position, velocity) pair, and that pair is the component-wise
\* negation of the pair translate_from_to(F2, F1, t) returns.
C3_Antisymmetry ==
    (/\ Done("translate_from_to")
     /\ PathOf(ctx, op.from_frame).kind = "Ok"
     /\ PathOf(ctx, op.to_frame).kind = "Ok")
        => /\ result.kind = "Ok"
           /\ LET back == TranslateOf(ctx, op.to_frame, op.from_frame, op.epoch)
              IN  /\ back.kind = "Ok"
                  /\ result.value[1] = Negated(back.value[1])
                  /\ result.value[2] = Negated(back.value[2])

\* two results are the same node, or are both failures
SameNode(r1, r2) ==
    \/ r1.kind = "Ok" /\ r2.kind = "Ok" /\ r1.value.node = r2.value.node
    \/ r1.kind # "Ok" /\ r2.kind # "Ok"

\* C4: find_common_ephemeris_node(F1, F2) and find_common_ephemeris_node(F2, F1)
\* return the same node hash, or both fail: the result does not depend on the
\* order of the arguments.
C4_CommonNodeSymmetric ==
    Done("find_common_ephemeris_node")
        => SameNode(result, FindCommonOf(ctx, op.to_frame, op.from_frame))

\* the common node of two frames with chains of different lengths was found,
\* and it is not the root
C4_Witness ==
    /\ Done("find_common_ephemeris_node")
    /\ result.kind = "Ok"
    /\ result.value.node # SOLAR_SYSTEM_BARYCENTER
    /\ Len(result.value.from_edges) > Len(result.value.to_edges)
    /\ Len(result.value.to_edges) > 0

\* the parent hash read from the record of the hash h: Some(parent), or None
\* when h has no LUT entry or the entry has no record
ParentRead(c, h) ==
    LET idx == index_for_hash(c, h)
        rec == try_ephemeris_data(c, idx.value)
    IN  IF idx.kind = "Ok" /\ rec.kind = "Ok"
        THEN Some(rec.value.parent_ephemeris_hash)
        ELSE None

RECURSIVE Ancestor(_, _, _)
\* the n-th parent hash read on the way up from h, or None when a read on
\* the way fails
Ancestor(c, h, n) ==
    IF n = 0 THEN Some(h)
    ELSE LET below == Ancestor(c, h, n - 1)
         IN  IF below = None THEN None ELSE ParentRead(c, below[1])

Nodes(chain) == {chain[i] : i \in 1..Len(chain)}

\* the position of the node x in a chain that holds it
Position(chain, x) == CHOOSE i \in 1..Len(chain) : chain[i] = x

\* the two chains of a find_common_ephemeris_node query that walked both
FromChain == Chain(from_path.value)
ToChain == Chain(ret.value)

WalkedBoth ==
    /\ Done("find_common_ephemeris_node")
    /\ phase = 2
    /\ ret.kind = "Ok"

QueryIs(h1, h2) ==
    /\ op.from_frame.ephemeris_hash = h1
    /\ op.to_frame.ephemeris_hash = h2
    /\ op.from_frame # op.to_frame

\* C5: the common ephemeris node of two distinct frames is the deepest node
\* lying on both frames' walks to the root (the nodes of their two ancestor
\* chains). Where EMB's parent is SSB, the Earth's and the Moon's parent is
\* EMB, and the other body's parent is SSB: the common node of the Earth and
\* the Moon is EMB, and the common node of the Moon (or the Earth) and a body
\* whose parent is SSB is SSB.
C5_NearestCommonAncestor ==
    /\ WalkedBoth =>
         /\ result.kind = "Ok"
         /\ result.value.node \in Nodes(FromChain) \cap Nodes(ToChain)
         /\ \A x \in Nodes(FromChain) \cap Nodes(ToChain) :
              /\ Position(FromChain, result.value.node) <= Position(FromChain, x)
              /\ Position(ToChain, result.value.node) <= Position(ToChain, x)
    /\ (/\ Done("find_common_ephemeris_node")
        /\ ParentRead(ctx, EARTH_MOON_BARYCENTER) = Some(SOLAR_SYSTEM_BARYCENTER)
        /\ ParentRead(ctx, EARTH) = Some(EARTH_MOON_BARYCENTER)
        /\ ParentRead(ctx, LUNA) = Some(EARTH_MOON_BARYCENTER)) =>
         /\ (QueryIs(EARTH, LUNA) \/ QueryIs(LUNA, EARTH)) =>
              result.kind = "Ok" /\ result.value.node = EARTH_MOON_BARYCENTER
         /\ \A h \in LutHashes(ctx), m \in {EARTH, LUNA} :
              (ParentRead(ctx, h) = Some(SOLAR_SYSTEM_BARYCENTER)
                /\ (QueryIs(m, h) \/ QueryIs(h, m))) =>
                  result.kind = "Ok" /\ result.value.node = SOLAR_SYSTEM_BARYCENTER

\* the common node of the Earth and the Moon was found
C5_Witness ==
    /\ WalkedBoth
    /\ op.from_frame = EARTH_J2000
    /\ op.to_frame = LUNA_J2000
    /\ result = Ok(CommonNode(EARTH_MOON_BARYCENTER,
                              <<<<EARTH, EARTH_MOON_BARYCENTER>>>>,
                              <<<<LUNA, EARTH_MOON_BARYCENTER>>>>))

\* the common node of the Moon and the Sun was found
C5_WitnessSun ==
    /\ WalkedBoth
    /\ QueryIs(LUNA, SUN)
    /\ result.kind = "Ok"
    /\ result.value.node = SOLAR_SYSTEM_BARYCENTER

\* C6: a chain returned by try_ephemeris_path has a length of_path_len with
\* 1 <= of_path_len <= MAX_TREE_DEPTH, and the walk never writes past the
\* last slot of the path: the index written next is below MAX_TREE_DEPTH
\* whenever the loop goes on, and no index is out of bounds, whatever the
\* catalog (cyclic ones included).
C6_DepthBound ==
    /\ of_path_len \in 0..MAX_TREE_DEPTH
    /\ DOMAIN of_path = 0..(MAX_TREE_DEPTH - 1)
    /\ (pc = "walk" /\ iter < MAX_TREE_DEPTH) => of_path_len < MAX_TREE_DEPTH
    /\ ret.kind # "Panic"
    /\ result.kind # "Panic"
    /\ ret.kind = "Ok" =>
         /\ ret.value[1] \in 1..MAX_TREE_DEPTH
         /\ ret.value[1] = of_path_len

\* the hashes written to the path so far
Written == {of_path[i][1] : i \in 0..(of_path_len - 1)}

\* a chain of MAX_TREE_DEPTH nodes was returned
C6_Witness ==
    /\ Done("try_ephemeris_path")
    /\ result.kind = "Ok"
    /\ result.value[1] = MAX_TREE_DEPTH

\* a walk round a cycle filled the path and ended
C6_WitnessCyclic ==
    /\ Done("try_ephemeris_path")
    /\ result.kind = "Err"
    /\ of_path_len = MAX_TREE_DEPTH
    /\ Cardinality(Written) < MAX_TREE_DEPTH

\* the first MAX_TREE_DEPTH reads on the way up from h all succeed and none
\* of them reads the root
NoRootWithinDepth(c, h) ==
    \A n \in 1..MAX_TREE_DEPTH :
        Ancestor(c, h, n) # None /\ Ancestor(c, h, n) # Some(SOLAR_SYSTEM_BARYCENTER)

\* C7: try_ephemeris_path returns Err(MaxTreeDepth) exactly when all
\* MAX_TREE_DEPTH lookups succeed and none of the parent hashes they read is
\* the root; a chain that reads the root on its MAX_TREE_DEPTH-th hop is
\* returned with that length; and a returned chain is never cut short: it
\* ends with the root.
C7_TreeDepthError ==
    Done("try_ephemeris_path") =>
        LET h == op.source.ephemeris_hash
        IN  /\ (result = Err("MaxTreeDepth")) <=> NoRootWithinDepth(ctx, h)
            /\ (/\ \A n \in 1..(MAX_TREE_DEPTH - 1) :
                     /\ Ancestor(ctx, h, n) # None
                     /\ Ancestor(ctx, h, n) # Some(SOLAR_SYSTEM_BARYCENTER)
                /\ Ancestor(ctx, h, MAX_TREE_DEPTH) = Some(SOLAR_SYSTEM_BARYCENTER))
                 => (result.kind = "Ok" /\ result.value[1] = MAX_TREE_DEPTH)
            /\ result.kind = "Ok" =>
                 result.value[2][result.value[1] - 1] = Some(SOLAR_SYSTEM_BARYCENTER)

\* a walk that needed one hop more than MAX_TREE_DEPTH, in a catalog with no
\* cycle, ended with MaxTreeDepth
C7_Witness ==
    /\ Done("try_ephemeris_path")
    /\ result = Err("MaxTreeDepth")
    /\ Cardinality(Written) = MAX_TREE_DEPTH
    /\ Ancestor(ctx, op.source.ephemeris_hash, MAX_TREE_DEPTH + 1)
         = Some(SOLAR_SYSTEM_BARYCENTER)

\* C8: try_ephemeris_path ends after at most MAX_TREE_DEPTH LUT lookups, with
\* a chain or an error, for every catalog (one with a cycle included) and
\* every source frame: a walk never goes on forever.
C8_Terminates ==
    /\ [](lookups <= MAX_TREE_DEPTH)
    /\ (pc = "walk") ~> (pc = "returned" /\ ret.kind \in {"Ok", "Err"})

\* a walk round a cycle ended after MAX_TREE_DEPTH lookups
C8_Witness ==
    /\ pc = "returned"
    /\ op.name = "try_ephemeris_path"
    /\ ret = Err("MaxTreeDepth")
    /\ lookups = MAX_TREE_DEPTH
    /\ Cardinality(Written) < MAX_TREE_DEPTH

\* C9: for a hash h of the ephemeris LUT and the frame F = (h, J2000),
\* find_common_ephemeris_node(F, F) returns h itself, with both edge lists
\* empty.
C9_SelfCommonNode ==
    (/\ Done("find_common_ephemeris_node")
     /\ op.from_frame = op.to_frame
     /\ op.from_frame.orientation_hash = J2000
     /\ op.from_frame.ephemeris_hash \in LutHashes(ctx))
        => /\ result.kind = "Ok"
           /\ result.value.node = op.from_frame.ephemeris_hash
           /\ result.value.from_edges = <<>>
           /\ result.value.to_edges = <<>>

\* the common node of the Earth's frame and itself was asked for
C9_Witness ==
    /\ Done("find_common_ephemeris_node")
    /\ op.from_frame = EARTH_J2000
    /\ op.to_frame = EARTH_J2000
    /\ EARTH \in LutHashes(ctx)
    /\ result.kind = "Ok"

\* the chain short, read from the root end, is a prefix of the chain long
\* read from the root end
PrefixFromRoot(short, long) ==
    /\ Len(short) <= Len(long)
    /\ \A i \in 1..Len(short) : short[i] = long[Len(long) - Len(short) + i]

\* C10: when the ancestor chain of one frame, read from the root end as the
\* scan reads it, is a prefix of the other frame's chain, the common ancestor
\* returned is the final node of the shorter chain in that reading (the node
\* of the shorter chain farthest from the root).
C10_PrefixCase ==
    WalkedBoth =>
        /\ PrefixFromRoot(FromChain, ToChain) =>
             result.kind = "Ok" /\ result.value.node = FromChain[1]
        /\ PrefixFromRoot(ToChain, FromChain) =>
             result.kind = "Ok" /\ result.value.node = ToChain[1]

\* a frame and a frame further from the root on the same branch: the shorter
\* chain is a proper prefix from the root end, and its final node is not the
\* root
C10_Witness ==
    /\ WalkedBoth
    /\ Len(FromChain) >= 2
    /\ Len(FromChain) < Len(ToChain)
    /\ PrefixFromRoot(FromChain, ToChain)
    /\ result.kind = "Ok"
    /\ result.value.node = FromChain[1]

\* the walk up from h makes its lookup number n + 1 (of the hash h when n = 0,
\* of the n-th parent otherwise) and that hash has no LUT entry
MissingAt(c, h, n) ==
    /\ \A m \in 0..n : Ancestor(c, h, m) # None
    /\ \A m \in 1..n : Ancestor(c, h, m) # Some(SOLAR_SYSTEM_BARYCENTER)
    /\ index_for_hash(c, Ancestor(c, h, n)[1]).kind = "Err"

HitsMissing(c, h) == \E n \in 0..(MAX_TREE_DEPTH - 1) : MissingAt(c, h, n)

\* the walk up from h reads the root within MAX_TREE_DEPTH reads, all of
\* which succeed
Resolves(c, h) ==
    \E n \in 1..MAX_TREE_DEPTH :
        /\ Ancestor(c, h, n) = Some(SOLAR_SYSTEM_BARYCENTER)
        /\ \A m \in 1..(n - 1) :
             Ancestor(c, h, m) # None /\ Ancestor(c, h, m) # Some(SOLAR_SYSTEM_BARYCENTER)

\* C11: if the source frame's hash, or a parent hash visited before the root
\* is read, has no LUT entry, try_ephemeris_path returns the LUT's lookup
\* error at that lookup (no further lookup, no chain); translate_from_to of
\* two distinct frames returns that error when the walk of from_frame meets
\* it, and when the walk of from_frame succeeds and that of to_frame meets it.
C11_LookupErrorSurfaces ==
    /\ Done("try_ephemeris_path") =>
         \A n \in 0..(MAX_TREE_DEPTH - 1) :
            MissingAt(ctx, op.source.ephemeris_hash, n) =>
                /\ result = index_for_hash(ctx, Ancestor(ctx, op.source.ephemeris_hash, n)[1])
                /\ result.kind = "Err"
                /\ lookups = n + 1
    /\ (Done("translate_from_to") /\ op.from_frame # op.to_frame) =>
         /\ HitsMissing(ctx, op.from_frame.ephemeris_hash) =>
              result = Err("NotFound")
         /\ (/\ Resolves(ctx, op.from_frame.ephemeris_hash)
             /\ HitsMissing(ctx, op.to_frame.ephemeris_hash)) =>
              result = Err("NotFound")

\* a translation whose first walk succeeded and whose second walk met, after
\* at least one successful lookup, a hash with no LUT entry
C11_Witness ==
    /\ Done("translate_from_to")
    /\ phase = 2
    /\ from_path.kind = "Ok"
    /\ of_path_len >= 1
    /\ HitsMissing(ctx, op.to_frame.ephemeris_hash)
    /\ result = Err("NotFound")

\* a walk met, after at least two successful lookups, a hash with no LUT entry
C11_WitnessPath ==
    /\ Done("try_ephemeris_path")
    /\ lookups >= 3
    /\ result = Err("NotFound")

\* C17: on success try_ephemeris_path(F) returns (n, path) where path[0] is
\* the parent hash of F's own record, path[i] for 0 < i < n is the parent
\* hash of the record whose hash is path[i-1], path[n-1] is the root, no
\* earlier element is the root, every slot from n on is None, and F's own
\* hash is not an element of the chain. (No record has the reserved hash 0
\* of the root.)
C17_ChainContents ==
    (Done("try_ephemeris_path") /\ result.kind = "Ok") =>
        LET n == result.value[1]
            path == result.value[2]
            h == op.source.ephemeris_hash
        IN  /\ n \in 1..MAX_TREE_DEPTH
            /\ path[0] # None
            /\ path[0] = ParentRead(ctx, h)
            /\ \A i \in 1..(n - 1) :
                 path[i] # None /\ path[i] = ParentRead(ctx, path[i - 1][1])
            /\ path[n - 1] = Some(SOLAR_SYSTEM_BARYCENTER)
            /\ \A i \in 0..(n - 2) : path[i] # Some(SOLAR_SYSTEM_BARYCENTER)
            /\ \A i \in n..(MAX_TREE_DEPTH - 1) : path[i] = None
            /\ \A i \in 0..(n - 1) : path[i] # Some(h)

\* a chain of three nodes or more was returned
C17_Witness ==
    /\ Done("try_ephemeris_path")
    /\ result.kind = "Ok"
    /\ result.value[1] >= 3
    /\ result.value[1] < MAX_TREE_DEPTH

\* the walk up from h reaches, at its lookup number n + 1, a LUT entry whose
\* index is outside the ephemeris catalog
DanglingAt(c, h, n) ==
    /\ \A m \in 0..n : Ancestor(c, h, m) # None
    /\ \A m \in 1..n : Ancestor(c, h, m) # Some(SOLAR_SYSTEM_BARYCENTER)
    /\ LET idx == index_for_hash(c, Ancestor(c, h, n)[1])
       IN  idx.kind = "Ok" /\ idx.value >= Len(c.ephemeris_data)

\* C19: try_ephemeris_data(idx) and try_orientation_data(idx) return the
\* record at idx when idx is within the catalog and
\* Err(IntegrityError(LookupTable)) for every other idx, and never panic; a
\* walk that reaches a LUT entry whose index is past the ephemeris catalog
\* returns that integrity error, at that lookup.
C19_IndexSafety ==
    /\ Done("try_ephemeris_data") =>
         /\ result.kind # "Panic"
         /\ op.idx < Len(ctx.ephemeris_data) =>
              result = Ok(ctx.ephemeris_data[op.idx + 1])
         /\ op.idx >= Len(ctx.ephemeris_data) =>
              result = Err("IntegrityError(LookupTable)")
    /\ Done("try_orientation_data") =>
         /\ result.kind # "Panic"
         /\ op.idx < Len(ctx.orientation_data) =>
              result = Ok(ctx.orientation_data[op.idx + 1])
         /\ op.idx >= Len(ctx.orientation_data) =>
              result = Err("IntegrityError(LookupTable)")
    /\ Done("try_ephemeris_path") =>
         \A n \in 0..(MAX_TREE_DEPTH - 1) :
            DanglingAt(ctx, op.source.ephemeris_hash, n) =>
                /\ result = Err("IntegrityError(LookupTable)")
                /\ lookups = n + 1

\* a walk reached, after a successful read, a LUT entry whose index is one
\* past the catalog
C19_Witness ==
    /\ Done("try_ephemeris_path")
    /\ lookups >= 2
    /\ \E n \in 1..(MAX_TREE_DEPTH - 1) : DanglingAt(ctx, op.source.ephemeris_hash, n)
    /\ result = Err("IntegrityError(LookupTable)")

\* the ephemeris catalog was read one past its last record
C19_WitnessAccessor ==
    /\ Done("try_ephemeris_data")
    /\ op.idx = Len(ctx.ephemeris_data)
    /\ result = Err("IntegrityError(LookupTable)")

\* what the query q returns when it runs alone on the context c
Alone(c, q) ==
    IF q.name = "try_ephemeris_path" THEN PathOf(c, q.source)
    ELSE TranslateOf(c, q.from_frame, q.to_frame, q.epoch)

ThreadsAgreeWithAlone ==
    \A t \in Threads :
        threads[t].pc = "done" =>
            /\ threads[t].result = Alone(ctx, threads[t].op)
            /\ threads[t].first # NoResult => threads[t].result = threads[t].first

\* C13: no step of a query modifies the context; under every interleaving of
\* the steps of the threads' queries each query returns what it returns when
\* run alone on the context, whatever the other threads run and whether or
\* not their queries fail, and a query made again returns what it returned
\* the first time.
C13_NoSharedState ==
    /\ []ThreadsAgreeWithAlone
    /\ [][ctx' = ctx]_vars

\* a retried walk of a cycle has failed with MaxTreeDepth for the second
\* time while another thread's walk succeeded
C13_Witness ==
    \E t \in Threads, u \in Threads :
        /\ t # u
        /\ threads[t].pc = "done"
        /\ threads[t].first = Err("MaxTreeDepth")
        /\ threads[t].result = Err("MaxTreeDepth")
        /\ threads[u].pc = "done"
        /\ threads[u].result.kind = "Ok"
        /\ threads[u].op.name = "try_ephemeris_path"

\* the buffer b is well formed: its version is the supported one, the hashes
\* of its LUT are pairwise distinct and every index of its LUT is within
\* the catalog
WellFormed(b) ==
    /\ b.version = "supported"
    /\ \A i \in 1..Len(b.ephemeris_lut.hashes), j \in 1..Len(b.ephemeris_lut.hashes) :
         b.ephemeris_lut.hashes[i] = b.ephemeris_lut.hashes[j] => i = j
    /\ \A i \in 1..Len(b.ephemeris_lut.indexes) :
         b.ephemeris_lut.indexes[i] < Len(b.ephemeris_data)

\* no query has been made
NoQueryYet ==
    /\ op = NoOp
    /\ lookups = 0
    /\ ret = NoResult
    /\ result = NoResult

\* C12: open of a buffer whose ephemeris LUT holds two entries with the same
\* hash returns an integrity error and no context, so that no query is ever
\* made on it; open of a well-formed buffer succeeds; in every opened context
\* the hashes of the ephemeris LUT are pairwise distinct.
C12_LutUniqueAtOpen ==
    /\ pc # "closed" =>
         /\ Cardinality({buffer.ephemeris_lut.hashes[i] :
                            i \in 1..Len(buffer.ephemeris_lut.hashes)})
                < Len(buffer.ephemeris_lut.hashes) =>
              /\ opened.kind = "Err"
              /\ opened.error \in {"IntegrityError(LookupTable)", "IntegrityError(Version)"}
              /\ pc = "failed"
              /\ ctx = Unopened
              /\ NoQueryYet
         /\ WellFormed(buffer) => opened.kind = "Ok" /\ pc # "failed"
    /\ pc \notin {"closed", "failed"} =>
         /\ opened = Ok(ctx)
         /\ Cardinality(LutHashes(ctx)) = Len(ctx.ephemeris_lut.hashes)

\* a buffer of the supported version whose LUT holds the same hash in its
\* first two entries, and a third entry, was refused
C12_Witness ==
    /\ pc = "failed"
    /\ buffer.version = "supported"
    /\ Len(buffer.ephemeris_lut.hashes) = MaxLut
    /\ buffer.ephemeris_lut.hashes[1] = buffer.ephemeris_lut.hashes[2]
    /\ buffer.ephemeris_lut.hashes[2] # buffer.ephemeris_lut.hashes[MaxLut]
    /\ opened = Err("IntegrityError(LookupTable)")

\* the buffer of the DE catalog was opened and a walk on it has returned
C12_WitnessOpened ==
    /\ Done("try_ephemeris_path")
    /\ buffer = BufferOf("supported", DEContext)
    /\ Len(ctx.ephemeris_lut.hashes) = Len(DERecords)
    /\ result.kind = "Ok"

\* the assignment of the last call of parse
LastWrite == history[Len(history)]

\* the keyword k as TPCItem::parse reads it
IsBodyKeyword(k) == starts_with(k, BODY) /\ split_once(k, "_") # None
ParamText(k) == split_once(k, "_")[1][2]
IdText(k) == SliceFrom(split_once(k, "_")[1][1], 4)

\* C14: after parse of an assignment whose keyword is BODY<id>_<PARAM> with
\* <PARAM> one of the twelve keywords, data maps the Parameter of <PARAM> to
\* the numbers the value was written from, the same elements in the same
\* order, whether the value is one number or several and on one line or
\* several; BODY399_POLE_RA = ( 0.0 -0.641 0.0 ) parsed into a new item
\* gives body 399 and data[PoleRa] = [0.0, -0.641, 0.0].
C14_IngestionRoundTrip ==
    history # <<>> =>
        /\ (IsBodyKeyword(LastWrite.keyword) /\ ParamText(LastWrite.keyword) \in Vocabulary) =>
             LET param == Parameter_from_str(ParamText(LastWrite.keyword))
             IN  /\ param.kind = "Ok"
                 /\ param.value \in DOMAIN item.data
                 /\ item.data[param.value] = LastWrite.form.nums
        /\ (/\ Len(history) = 1
            /\ LastWrite.keyword = BodyKeyword(ID_399, K_POLE_RA)
            /\ LastWrite.form.nums = PoleRaOfEarth) =>
             item = [body_id |-> Some(399), data |-> [q \in {"PoleRa"} |-> PoleRaOfEarth]]

\* a parameter of body 399 that had a three-element vector, written on three
\* lines, was given a one-element vector written with a plus sign
C14_Witness ==
    /\ Len(history) = 2
    /\ history[1].keyword = BodyKeyword(ID_399, K_PM)
    /\ history[1].form.multiline
    /\ Len(history[1].form.nums) = 3
    /\ LastWrite.keyword = BodyKeyword(<<"+">> \o ID_399, K_PM)
    /\ LastWrite.form = ShortForm
    /\ item = [body_id |-> Some(399),
               data |-> [q \in {"PrimeMeridian"} |-> ShortForm.nums]]
    /\ outcome = [kind |-> "Returned", warned |-> {}]

\* strings given to Parameter::from_str: the parameter texts of the
\* assignments, the empty string and a keyword followed by an underscore
FromStrTexts == ParameterTexts \cup {<<>>, K_GM \o <<"_">>}

\* the last call of parse was given a BODY keyword whose parameter is none
\* of the twelve
UnknownAt(i) ==
    /\ IsBodyKeyword(history[i].keyword)
    /\ ParamText(history[i].keyword) \notin Vocabulary

\* C15: Parameter::from_str returns Ok for the twelve keywords, each with
\* its own Parameter, and ParameterNotSpecified for every other string;
\* parse of a BODY assignment whose parameter is none of the twelve returns
\* without a panic, logs the warning and leaves data as it was; an
\* assignment with a recognized parameter parsed after it is ingested.
C15_UnknownParameterSkipped ==
    /\ history = <<>> =>
         /\ Cardinality(Vocabulary) = 12
         /\ \A s \in FromStrTexts :
              IF s \in Vocabulary
              THEN /\ Parameter_from_str(s).kind = "Ok"
                   /\ Parameter_from_str(s).value \in Parameters
                   /\ \A t \in Vocabulary :
                        Parameter_from_str(t) = Parameter_from_str(s) => t = s
              ELSE Parameter_from_str(s) = Err("ParameterNotSpecified")
    /\ (history # <<>> /\ UnknownAt(Len(history))) =>
         /\ outcome.kind = "Returned"
         /\ "Unknown parameter" \in outcome.warned
         /\ item.data = prior.data
    /\ (Len(history) >= 2 /\ UnknownAt(Len(history) - 1)
        /\ IsBodyKeyword(LastWrite.keyword)
        /\ ParamText(LastWrite.keyword) = K_GM) =>
         /\ outcome.kind = "Returned"
         /\ "GravitationalParameter" \in DOMAIN item.data
         /\ item.data["GravitationalParameter"] = LastWrite.form.nums

\* an assignment of body 399 with an unknown parameter was skipped by a new
\* item and the body's GM was then ingested
C15_Witness ==
    /\ Len(history) = 2
    /\ history[1].keyword = BodyKeyword(ID_399, K_POLE)
    /\ LastWrite.keyword = BodyKeyword(ID_399, K_GM)
    /\ prior = [body_id |-> Some(399), data |-> <<>>]
    /\ item.body_id = Some(399)
    /\ DOMAIN item.data = {"GravitationalParameter"}
    /\ item.data["GravitationalParameter"] = LastWrite.form.nums

\* an assignment with an unknown parameter was skipped by an item that
\* holds data
C15_WitnessSkipped ==
    /\ Len(history) = 2
    /\ UnknownAt(2)
    /\ prior.data # <<>>
    /\ item.data = prior.data
    /\ outcome.kind = "Returned"

\* the last call of parse was given an assignment for another body than the
\* one the item holds
OtherBody ==
    /\ history # <<>>
    /\ IsBodyKeyword(LastWrite.keyword)
    /\ prior.body_id # None
    /\ parse_i32(IdText(LastWrite.keyword)) # prior.body_id

\* C18: after any sequence of calls of parse every entry of data was
\* inserted from an assignment whose body id is the item's body_id, and
\* parse of an assignment for another body than the one the item holds
\* changes neither body_id nor data.
C18_GroupedByBody ==
    /\ \A p \in DOMAIN item.data : origin[p] = item.body_id
    /\ OtherBody => item = prior

\* the parameters the items of a kernel hold for the body b
ParametersIn(items, b) == IF b \in DOMAIN items THEN DOMAIN items[b].data ELSE {}

\* C16: when the merge has visited every body of the second kernel, every
\* body of either kernel has an item in the merged result, its parameters
\* are those the body has in the first kernel together with those it has in
\* the second, and a parameter the body has in one kernel only has the value
\* of that kernel.
C16_MergeIsUnion ==
    pending = {} =>
        \A b \in DOMAIN planetary_file \cup DOMAIN gravity_data :
            /\ b \in DOMAIN planetary_data
            /\ DOMAIN planetary_data[b].data =
                 ParametersIn(planetary_file, b) \cup ParametersIn(gravity_data, b)
            /\ \A q \in ParametersIn(planetary_file, b) \ ParametersIn(gravity_data, b) :
                 planetary_data[b].data[q] = planetary_file[b].data[q]
            /\ \A q \in ParametersIn(gravity_data, b) \ ParametersIn(planetary_file, b) :
                 planetary_data[b].data[q] = gravity_data[b].data[q]

====
